---- MODULE Spec2Model ----
(***************************************************************************)
(* PyOBSim: the limit-order Book of pyobsim/book.py.                       *)
(*                                                                         *)
(* The Book owns a bid Side, an ask Side, a participant map and the last   *)
(* traded price.  book.py imports Side, Order and the error classes from   *)
(* modules that are not part of the source tree; they are modelled here    *)
(* from their contract in the specification (sections 3 and 4.1) and from  *)
(* the way book.py uses them.  Prices are integers (the currency's minimum *)
(* increment), quantities are positive integers.                           *)
(***************************************************************************)
EXTENDS Integers, Sequences, FiniteSets

\* ------------------------------------------------------------------ bounds
MaxPrice == 2
MaxQty == 2
MaxOrders == 3

Prices == 1..MaxPrice
Qtys == 1..MaxQty
Names == {"B", "S"}

\* the participants handed to Book.__init__ (name -> balance, position)
InitParticipants ==
    [n \in Names |-> IF n = "B" THEN [balance |-> 4, volume |-> 0]
                                ELSE [balance |-> 1, volume |-> 3]]

\* ------------------------------------------------------------ plain values
\* Python's None: the amt default of execute, the value add returns when the
\* order matched, the identifier of an order that never rested.
None == 0

\* Side.best of an empty side: a sentinel that no price is below.
NoBest == 0

Max(S) == CHOOSE x \in S : \A y \in S : y <= x
Min(S) == CHOOSE x \in S : \A y \in S : x <= y

RECURSIVE SumQty(_)
SumQty(s) == IF s = <<>> THEN 0 ELSE Head(s).qty + SumQty(Tail(s))

\* ---------------------------------------------------------------- Order
\* An order as submitted to add: no identifier assigned yet.
Order(owner, otype, price, qty) ==
    [oid |-> None, owner |-> owner, otype |-> otype, price |-> price, qty |-> qty]

\* Order(oid, owner, otype, symbol, price, qty): the constructor validates
\* its arguments and raises ValueError for a negative identifier, a price
\* that is not positive or a quantity that is not positive.
Order_init_negative_only(oid, owner, otype, price, qty) ==
    IF oid < 0 \/ price < 0 \/ qty < 0
    THEN [raised |-> "ValueError", made |-> FALSE,
          order |-> Order("B", "BID", 1, 1)]
    ELSE [raised |-> "none", made |-> TRUE,
          order |-> [oid |-> oid, owner |-> owner, otype |-> otype,
                     price |-> price, qty |-> qty]]

Order_init(oid, owner, otype, price, qty) ==
    IF oid < 0 \/ price <= 0 \/ qty <= 0
    THEN [raised |-> "ValueError", made |-> FALSE,
          order |-> Order("B", "BID", 1, 1)]
    ELSE [raised |-> "none", made |-> TRUE,
          order |-> [oid |-> oid, owner |-> owner, otype |-> otype,
                     price |-> price, qty |-> qty]]

NewOrders ==
    {Order(n, t, p, q) : n \in Names, t \in {"BID", "ASK"}, p \in Prices, q \in Qtys}

\* ----------------------------------------------------------------- Side
\* A side maps every price to the FIFO queue of the orders resting at it;
\* an empty queue means the level does not exist.
\*   best    the best resting price (highest bid, lowest ask); on an empty
\*           side a sentinel that compares below every price, so that add on
\*           an empty opposite side ends in resting and never in NoPrice
\*   prices  the distinct resting prices, best first
\*   get     the queue of a level itself, not a copy: _match tests
\*           len(level) == 0 after executions have removed its orders
\*   put     appends to the level of the order's price
\*   remove  deletes, in place, every order carrying the identifier; absent
\*           identifiers are ignored; a level left empty ceases to exist
Side == [p \in Prices |-> <<>>]

levels(side) == {p \in DOMAIN side : side[p] # <<>>}

best(stype, side) ==
    IF levels(side) = {} THEN NoBest
    ELSE IF stype = "BID" THEN Max(levels(side)) ELSE Min(levels(side))

RECURSIVE prices(_, _)
prices(stype, side) ==
    IF levels(side) = {} THEN <<>>
    ELSE LET p == best(stype, side)
         IN  <<p>> \o prices(stype, [side EXCEPT ![p] = <<>>])

\* get(price) raises NoPriceError when no level exists at that price
NoPrice(side, price) == side[price] = <<>>

get(side, price) == side[price]

put(side, order) == [side EXCEPT ![order.price] = Append(@, order)]

remove(side, oid) ==
    [p \in DOMAIN side |-> SelectSeq(side[p], LAMBDA o : o.oid # oid)]

RECURSIVE volume(_)
volume(side) ==
    IF levels(side) = {} THEN 0
    ELSE LET p == Min(levels(side))
         IN  SumQty(side[p]) + volume([side EXCEPT ![p] = <<>>])

RECURSIVE count(_)
count(side) ==
    IF levels(side) = {} THEN 0
    ELSE LET p == Min(levels(side))
         IN  Len(side[p]) + count([side EXCEPT ![p] = <<>>])

oids(side) == UNION {{side[p][i].oid : i \in 1..Len(side[p])} : p \in DOMAIN side}

\* ----------------------------------------------------------------- Book
\* A book value: the private fields of a Book object.
\*   bids, asks     the two sides
\*   participants   the private map name -> (balance, volume)
\*   LTP            last traded price
NewBook ==
    [bids |-> Side, asks |-> Side, participants |-> InitParticipants, LTP |-> 0]

\* The participants property returns deepcopy(self.__participants).  `stored`
\* is the private map, `written` is the object the property returned after
\* the caller assigned to one of its entries; the result is the private map
\* afterwards: the assignment landed in the copy.
participants(stored, written) == stored

crossed(b) == best("BID", b.bids) >= best("ASK", b.asks)

\* _payout(side, order, amt): the ledger entry of the order's owner as the
\* statements of _payout leave it in the object they write to.
payout(parts, stype, order, amt) ==
    LET n == IF amt # None THEN amt ELSE order.qty
    IN  IF stype = "BID"
        THEN [parts EXCEPT ![order.owner] =
                 [balance |-> @.balance - order.price * n, volume |-> @.volume + n]]
        ELSE IF stype = "ASK"
        THEN [parts EXCEPT ![order.owner] =
                 [balance |-> @.balance + order.price * n, volume |-> @.volume - n]]
        ELSE parts

\* execute with the `order.qty -= amt` of a partial execution left out
execute_without_decrement(b, order, amt) ==
    LET paid == participants(b.participants,
                             payout(b.participants, order.otype, order, amt))
    IN  IF amt # None
        THEN [b |-> [b EXCEPT !.participants = paid, !.LTP = order.price],
              order |-> order]
        ELSE IF order.otype = "BID"
        THEN [b |-> [b EXCEPT !.participants = paid,
                              !.bids = remove(@, order.oid),
                              !.LTP = order.price],
              order |-> order]
        ELSE [b |-> [b EXCEPT !.participants = paid,
                              !.asks = remove(@, order.oid),
                              !.LTP = order.price],
              order |-> order]

\* execute with `self.__LTP = order.price` inside the full-execution branch
execute_ltp_on_full_only(b, order, amt) ==
    LET paid == participants(b.participants,
                             payout(b.participants, order.otype, order, amt))
    IN  IF amt # None
        THEN [b |-> [b EXCEPT !.participants = paid],
              order |-> [order EXCEPT !.qty = @ - amt]]
        ELSE IF order.otype = "BID"
        THEN [b |-> [b EXCEPT !.participants = paid,
                              !.bids = remove(@, order.oid),
                              !.LTP = order.price],
              order |-> order]
        ELSE [b |-> [b EXCEPT !.participants = paid,
                              !.asks = remove(@, order.oid),
                              !.LTP = order.price],
              order |-> order]

\* execute with the remove of a full execution left out
execute_without_remove(b, order, amt) ==
    LET paid == participants(b.participants,
                             payout(b.participants, order.otype, order, amt))
    IN  IF amt # None
        THEN [b |-> [b EXCEPT !.participants = paid, !.LTP = order.price],
              order |-> [order EXCEPT !.qty = @ - amt]]
        ELSE [b |-> [b EXCEPT !.participants = paid, !.LTP = order.price],
              order |-> order]

\* execute(order, amt): the book afterwards and the order object afterwards
\* (a partial execution reduces the quantity of the object it was given).
execute(b, order, amt) ==
    LET paid == participants(b.participants,
                             payout(b.participants, order.otype, order, amt))
    IN  IF amt # None
        THEN [b |-> [b EXCEPT !.participants = paid, !.LTP = order.price],
              order |-> [order EXCEPT !.qty = @ - amt]]
        ELSE IF order.otype = "BID"
        THEN [b |-> [b EXCEPT !.participants = paid,
                              !.bids = remove(@, order.oid),
                              !.LTP = order.price],
              order |-> order]
        ELSE [b |-> [b EXCEPT !.participants = paid,
                              !.asks = remove(@, order.oid),
                              !.LTP = order.price],
              order |-> order]

\* the counter side of a book, read and written by its type
side_of(b, stype) == IF stype = "BID" THEN b.bids ELSE b.asks

with_side(b, stype, side) ==
    IF stype = "BID" THEN [b EXCEPT !.bids = side] ELSE [b EXCEPT !.asks = side]

\* `level` is the list object Side.get returned: mutating a resting order
\* through it (o.qty -= amt) is seen by the side.
store_order(b, stype, price, i, o) ==
    IF i <= Len(side_of(b, stype)[price])
    THEN with_side(b, stype, [side_of(b, stype) EXCEPT ![price][i] = o])
    ELSE b

\* `self.execute(o, amt=o.qty)`
partial_amount_resting(order, o) == o.qty

\* the amt of `self.execute(o, amt=order.qty)`: the resting order is executed
\* for the quantity of the incoming one
partial_amount(order, o) == order.qty

\* units an execute(order, amt) call settles
units(order, amt) == IF amt # None THEN amt ELSE order.qty

\* `for o in level:` of _match.  The list iterator keeps an index i into the
\* live list; removing the current order shifts the later ones down by one.
\*   st.b      the book           st.order    the incoming order
\*   st.i      index of the next element the iterator yields
\*   st.matched                   st.fills    the executions on the counter
\*                                            side, in order
\*   st.raised what _match raises
\*   st.steps  passes of the while loop made so far
\* A fill records the level and place of the resting order executed, the
\* counter side as it was then, the units settled on the resting order (amt)
\* and on the incoming order (inc).
RECURSIVE for_o_in_level(_, _, _)
for_o_in_level(st, stype, price) ==
    LET level == get(side_of(st.b, stype), price)
    IN  IF st.i > Len(level) THEN st
        ELSE
        LET o == level[st.i]
            seen == side_of(st.b, stype)
        IN  IF st.order.qty < o.qty THEN
                LET e1 == execute(st.b, st.order, None)
                    e2 == execute(e1.b, o, partial_amount(e1.order, o))
                IN  [st EXCEPT
                        !.b = store_order(e2.b, stype, price, st.i, e2.order),
                        !.order = e1.order, !.i = st.i + 1, !.matched = TRUE,
                        !.fills = Append(@,
                            [price |-> price, idx |-> st.i,
                             amt |-> units(o, partial_amount(e1.order, o)),
                             inc |-> units(st.order, None), side |-> seen])]
            ELSE IF st.order.qty = o.qty THEN
                LET e1 == execute(st.b, st.order, None)
                    e2 == execute(e1.b, o, None)
                IN  [st EXCEPT
                        !.b = e2.b,
                        !.order = e1.order, !.i = st.i + 1, !.matched = TRUE,
                        !.fills = Append(@,
                            [price |-> price, idx |-> st.i,
                             amt |-> units(o, None),
                             inc |-> units(st.order, None), side |-> seen])]
            ELSE
                LET e1 == execute(st.b, st.order, o.qty)
                    e2 == execute(e1.b, o, None)
                IN  for_o_in_level(
                        [st EXCEPT
                            !.b = e2.b,
                            !.order = e1.order, !.i = st.i + 1,
                            !.fills = Append(@,
                                [price |-> price, idx |-> st.i,
                                 amt |-> units(o, None),
                                 inc |-> units(st.order, o.qty),
                                 side |-> seen])],
                        stype, price)

\* The passes of the while loop are counted; the evaluation gives up after
\* Fuel passes, more than a sweep of a book of MaxOrders orders can make.
Fuel == MaxOrders + 2

\* the while loop with `except NoPriceError: pass`: the loop goes on with the
\* emptied level
RECURSIVE while_not_matched_pass(_, _, _)
while_not_matched_pass(st, stype, price) ==
    IF st.matched THEN st
    ELSE IF st.steps >= Fuel THEN st
    ELSE while_not_matched_pass(
             for_o_in_level([st EXCEPT !.i = 1, !.steps = @ + 1], stype, price),
             stype, price)

\* `while not matched:` of _match: fetch the level again and iterate it from
\* its head, until matched or until get raises NoPriceError.
RECURSIVE while_not_matched(_, _, _)
while_not_matched(st, stype, price) ==
    IF st.matched THEN st
    ELSE IF st.steps >= Fuel THEN st
    ELSE IF NoPrice(side_of(st.b, stype), price)
    THEN [st EXCEPT !.steps = @ + 1]
    ELSE while_not_matched(
             for_o_in_level([st EXCEPT !.i = 1, !.steps = @ + 1], stype, price),
             stype, price)

\* after the while loop `level` is still the last list get returned
exhausted(b, stype, price) == Len(side_of(b, stype)[price]) = 0

\* `for price in counter_side.prices:` of _match, ps the prices not yet
\* visited; after_while is the rest of the loop body, `after` the state the
\* while loop left.
RECURSIVE for_price_in_prices(_, _, _)
RECURSIVE after_while(_, _, _)
for_price_in_prices(st, stype, ps) ==
    IF ps = <<>> THEN st
    ELSE after_while(while_not_matched([st EXCEPT !.matched = FALSE],
                                       stype, Head(ps)),
                     stype, ps)

\* the loop body without `if len(level) == 0: break`
after_while_without_break(after, stype, ps) ==
    IF after.matched THEN after
    ELSE for_price_in_prices(after, stype, Tail(ps))

after_while(after, stype, ps) ==
    IF after.matched THEN after
    ELSE IF exhausted(after.b, stype, Head(ps)) THEN after
    ELSE for_price_in_prices(after, stype, Tail(ps))

\* good_price with the two comparisons exchanged
good_price_swapped(stype, order, counter_best) ==
    IF stype = "BID" THEN order.price >= counter_best
                     ELSE order.price <= counter_best

good_price(stype, order, counter_best) ==
    IF stype = "BID" THEN order.price <= counter_best
                     ELSE order.price >= counter_best

enough_volume(order, counter_volume) == order.qty <= counter_volume

\* _match(counter_side, order): the state of the sweep when _match ends, with
\* what it raised ("returned": nothing).
match(b, stype, order) ==
    LET counter_side == side_of(b, stype)
    IN  IF ~good_price(stype, order, best(stype, counter_side))
        THEN [b |-> b, order |-> order, i |-> 1, matched |-> FALSE,
              fills |-> <<>>, raised |-> "PriceOutOfRange", steps |-> 0]
        ELSE IF ~enough_volume(order, volume(counter_side))
        THEN [b |-> b, order |-> order, i |-> 1, matched |-> FALSE,
              fills |-> <<>>, raised |-> "InsufficientVolume", steps |-> 0]
        ELSE [for_price_in_prices(
                  [b |-> b, order |-> order, i |-> 1, matched |-> FALSE,
                   fills |-> <<>>, raised |-> "returned", steps |-> 0],
                  stype, prices(stype, counter_side))
              EXCEPT !.i = 1, !.matched = FALSE]

\* the funds check of a BID comparing the price alone with the balance
funds_price_only(order, parts) ==
    IF order.otype = "BID"
    THEN order.price <= parts[order.owner].balance
    ELSE order.qty <= parts[order.owner].volume

funds(order, parts) ==
    IF order.otype = "BID"
    THEN order.price * order.qty <= parts[order.owner].balance
    ELSE order.qty <= parts[order.owner].volume

\* the identifier without the `+ 1`
new_oid_from_zero(b) == volume(b.bids) + volume(b.asks)

new_oid(b) == volume(b.bids) + volume(b.asks) + 1

\* rest without `order.oid = oid`
rest_without_oid(b, order) ==
    IF order.otype = "BID" THEN [b EXCEPT !.bids = put(@, order)]
                           ELSE [b EXCEPT !.asks = put(@, order)]

\* the except branches of add: assign the identifier and rest the order
rest(b, order) ==
    LET o == [order EXCEPT !.oid = new_oid(b)]
    IN  IF order.otype = "BID" THEN [b EXCEPT !.bids = put(@, o)]
                               ELSE [b EXCEPT !.asks = put(@, o)]

\* the try statement of add, m being what _match did: either _match returned
\* and add returns None, or it raised and the except branch rests the order.
try_match(b, order, m) ==
    IF m.raised = "returned"
    THEN [outcome |-> "matched", ret |-> None, b |-> m.b,
          fills |-> m.fills, raised |-> "none", order |-> m.order,
          steps |-> m.steps]
    ELSE [outcome |-> "rested", ret |-> new_oid(b), b |-> rest(b, order),
          fills |-> <<>>, raised |-> m.raised,
          order |-> [order EXCEPT !.oid = new_oid(b)], steps |-> m.steps]

\* add(order): the outcome ("InsufficientFunds" raised, "rested", "matched"),
\* the value returned, the book and the order object afterwards, what _match
\* raised and the executions made.
add(b, order) ==
    IF ~funds(order, b.participants)
    THEN [outcome |-> "InsufficientFunds", ret |-> None, b |-> b, fills |-> <<>>,
          raised |-> "InsufficientFunds", order |-> order, steps |-> 0]
    ELSE try_match(b, order,
                   match(b, IF order.otype = "BID" THEN "ASK" ELSE "BID", order))

\* add_participant(participant): what it raises and the book afterwards.  The
\* new entry is assigned into the object the participants property returns.
add_participant(b, p) ==
    IF p.name \in DOMAIN b.participants
    THEN [raised |-> "ParticipantAlreadyExists", b |-> b]
    ELSE [raised |-> "none",
          b |-> [b EXCEPT !.participants =
                    participants(@,
                        [n \in DOMAIN @ \cup {p.name} |->
                            IF n = p.name
                            THEN [balance |-> p.balance, volume |-> p.volume]
                            ELSE @[n]])]]

\* cancel without `self.asks.remove(oid)`
cancel_bids_only(b, oid) == [b EXCEPT !.bids = remove(@, oid)]

\* cancel that also forgets the last traded price
cancel_resets_LTP(b, oid) ==
    [b EXCEPT !.bids = remove(@, oid), !.asks = remove(@, oid), !.LTP = 0]

\* cancel(oid)
cancel(b, oid) == [b EXCEPT !.bids = remove(@, oid), !.asks = remove(@, oid)]

\* ------------------------------------------------------------ the machine
\* The Book is used by one caller at a time: a call runs to completion, the
\* caller looks at what it gave back, and only then makes the next call.
VARIABLES
    book,     \* the Book object
    pre,      \* the Book as it was when the last operation was called
    last      \* the operation that has just returned (op = "idle": none),
              \* its argument and what it gave back

vars == <<book, pre, last>>

Idle ==
    [op |-> "idle", order |-> Order("B", "BID", 1, 1), oid |-> None,
     outcome |-> "none", raised |-> "none", ret |-> None,
     fills |-> <<>>, left |-> 0, steps |-> 0, who |-> "",
     made |-> FALSE,
     args |-> [oid |-> 0, owner |-> "", otype |-> "", price |-> 0, qty |-> 0]]

Oids == 1..(MaxOrders * MaxQty)

Init ==
    /\ book = NewBook
    /\ pre = NewBook
    /\ last = Idle

\* book.add(order); books of more than MaxOrders resting orders are not explored
Returned(order, r) ==
    /\ count(r.b.bids) + count(r.b.asks) <= MaxOrders
    /\ book' = r.b
    /\ pre' = book
    /\ last' = [Idle EXCEPT !.op = "add", !.order = order,
                            !.outcome = r.outcome, !.raised = r.raised,
                            !.ret = r.ret, !.fills = r.fills,
                            !.left = r.order.qty, !.steps = r.steps]

Add(order) ==
    /\ last.op = "idle"
    /\ Returned(order, add(book, order))

\* book.cancel(oid)
Cancel(oid) ==
    /\ last.op = "idle"
    /\ book' = cancel(book, oid)
    /\ pre' = book
    /\ last' = [Idle EXCEPT !.op = "cancel", !.oid = oid]

\* book.add_participant(p), for a registered and for an unregistered name
NewParticipants ==
    {[name |-> n, balance |-> 1, volume |-> 1] : n \in Names \cup {"N"}}

Registered(p, r) ==
    /\ book' = r.b
    /\ pre' = book
    /\ last' = [Idle EXCEPT !.op = "add_participant", !.who = p.name,
                            !.raised = r.raised]

AddParticipant(p) ==
    /\ last.op = "idle"
    /\ Registered(p, add_participant(book, p))

\* the caller is done with the result of the last call
Discard ==
    /\ last.op # "idle"
    /\ book' = book
    /\ pre' = book
    /\ last' = Idle

Next ==
    \/ \E order \in NewOrders : Add(order)
    \/ \E oid \in Oids : Cancel(oid)
    \/ \E p \in NewParticipants : AddParticipant(p)
    \/ Discard

Spec == Init /\ [][Next]_vars

\* ---------------------------------------------------- constructing orders
\* The caller constructs orders from arguments of any sign.
OidArgs == -1..1
PriceArgs == -1..MaxPrice
QtyArgs == -1..MaxQty

Constructed(args, r) ==
    /\ last' = [Idle EXCEPT !.op = "Order", !.args = args,
                            !.raised = r.raised, !.made = r.made,
                            !.order = r.order]
    /\ UNCHANGED <<book, pre>>

Construct(oid, owner, otype, price, qty) ==
    /\ last.op = "idle"
    /\ Constructed([oid |-> oid, owner |-> owner, otype |-> otype,
                    price |-> price, qty |-> qty],
                   Order_init(oid, owner, otype, price, qty))

NextOrder ==
    \/ \E oid \in OidArgs, owner \in Names, otype \in {"BID", "ASK"},
          price \in PriceArgs, qty \in QtyArgs :
            Construct(oid, owner, otype, price, qty)
    \/ Discard

OrderSpec == Init /\ [][NextOrder]_vars


\* ------------------------------------------------------------- vocabulary
Opp(stype) == IF stype = "BID" THEN "ASK" ELSE "BID"

\* the admission check as the specification words it
Funded(o, parts) ==
    IF o.otype = "BID" THEN o.price * o.qty <= parts[o.owner].balance
                       ELSE o.qty <= parts[o.owner].volume

Own(b) == side_of(b, last.order.otype)
Counter(b) == side_of(b, Opp(last.order.otype))

\* every resting order of a book, by where it rests
Resting(b) ==
    {<<t, p, i>> \in {"BID", "ASK"} \X Prices \X (1..MaxOrders) :
        i <= Len(side_of(b, t)[p])}

At(b, r) == side_of(b, r[1])[r[2]][r[3]]

Added == last.op = "add"
Cancelled == last.op = "cancel"

\* ------------------------------------------------------------------ C1
\* C1: when the only resting order is an ASK of quantity q at price p of
\* seller S and another participant B with enough balance adds a BID of
\* quantity q at price p, then afterwards both sides are empty, LTP = p, the
\* Book's ledger shows B's balance down by p*q and position up by q, and S's
\* balance up by p*q and position down by q.
C1_Case ==
    /\ Added /\ last.order.otype = "BID"
    /\ Funded(last.order, pre.participants)
    /\ count(pre.bids) = 0 /\ count(pre.asks) = 1
    /\ Len(pre.asks[last.order.price]) = 1
    /\ pre.asks[last.order.price][1].qty = last.order.qty
    /\ pre.asks[last.order.price][1].owner # last.order.owner

C1_FullMatchSettlesLedger ==
    C1_Case =>
        LET B == last.order.owner
            S == pre.asks[last.order.price][1].owner
            p == last.order.price
            q == last.order.qty
        IN  /\ count(book.bids) = 0 /\ count(book.asks) = 0
            /\ book.LTP = p
            /\ book.participants[B].balance = pre.participants[B].balance - p * q
            /\ book.participants[B].volume = pre.participants[B].volume + q
            /\ book.participants[S].balance = pre.participants[S].balance + p * q
            /\ book.participants[S].volume = pre.participants[S].volume - q

\* ------------------------------------------------------------------ C2
\* C2: a funded order added while the opposite side is empty does not fail:
\* add returns the newly assigned identifier and the order rests on its own
\* side, at the end of the level of its price, with its full quantity; the
\* rest of the book is as before.
C2_Case ==
    /\ Added /\ Funded(last.order, pre.participants)
    /\ count(Counter(pre)) = 0

C2_RestsOnEmptyOppositeSide ==
    C2_Case =>
        LET o == last.order
            id == volume(pre.bids) + volume(pre.asks) + 1
        IN  /\ last.outcome = "rested"
            /\ last.ret = id /\ last.ret # None
            /\ Own(book) = [Own(pre) EXCEPT ![o.price] =
                               Append(@, [oid |-> id, owner |-> o.owner,
                                          otype |-> o.otype, price |-> o.price,
                                          qty |-> o.qty])]
            /\ Counter(book) = Counter(pre)

C2_Witness ==
    /\ C2_Case /\ last.outcome = "rested" /\ count(Own(pre)) > 0

\* ------------------------------------------------------------------ C3
\* C3: a BID with price*quantity above the submitter's balance, or an ASK
\* with quantity above the submitter's position, fails with
\* InsufficientFunds, and the sides, every ledger entry and LTP are left as
\* they were.
C3_Case == Added /\ ~Funded(last.order, pre.participants)

C3_FundsGate ==
    C3_Case => /\ last.outcome = "InsufficientFunds"
               /\ last.ret = None
               /\ book = pre

C3_Witness ==
    /\ C3_Case /\ last.outcome = "InsufficientFunds"
    /\ count(pre.bids) > 0 /\ count(pre.asks) > 0

\* ------------------------------------------------------------------ C4
\* C4: after every completed add or cancel, if both sides are non-empty
\* then bids.best < asks.best.
C4_Uncrossed ==
    (count(book.bids) > 0 /\ count(book.asks) > 0)
        => best("BID", book.bids) < best("ASK", book.asks)

\* ------------------------------------------------------------------ C5
\* C5: no two resting orders, on the same side or on opposite sides, carry
\* the same identifier.
C5_UniqueIdentifiers ==
    \A r1, r2 \in Resting(book) :
        r1 # r2 => At(book, r1).oid # At(book, r2).oid

\* ------------------------------------------------------------------ C6
\* C6: every execution of a sweep takes the oldest order of the best level
\* of the opposing side as that side is at that moment: no resting order is
\* filled while an order at a better price, or an older order at its price,
\* still rests.
C6_PriceTimePriority ==
    Added =>
        \A k \in 1..Len(last.fills) :
            LET f == last.fills[k]
            IN  /\ f.price = best(Opp(last.order.otype), f.side)
                /\ f.idx = 1

\* ------------------------------------------------------------------ C7
\* C7: an add that neither rests the order nor fails has filled the whole
\* incoming quantity: the opposing side's volume is down by exactly the
\* order's quantity and nothing of the order is left over.
C7_Case == Added /\ last.outcome = "matched"

RECURSIVE SumAmt(_)
SumAmt(fs) == IF fs = <<>> THEN 0 ELSE Head(fs).amt + SumAmt(Tail(fs))

C7_EntirelyConsumed ==
    C7_Case =>
        /\ SumAmt(last.fills) = last.order.qty
        /\ volume(Counter(book)) = volume(Counter(pre)) - last.order.qty

\* ------------------------------------------------------------------ C8
\* C8: when the oldest order at the opposing best price has quantity r and
\* a funded order of quantity k < r at a compatible price is added, the
\* incoming order does not rest, the resting order keeps its place, its
\* identifier and its price with quantity r - k, nothing else on the book
\* changes, and LTP is the resting order's price.
C8_Case ==
    /\ Added /\ Funded(last.order, pre.participants)
    /\ count(Counter(pre)) > 0
    /\ LET p == best(Opp(last.order.otype), Counter(pre))
       IN  /\ IF last.order.otype = "BID" THEN last.order.price >= p
                                          ELSE last.order.price <= p
           /\ last.order.qty < Counter(pre)[p][1].qty

C8_PartialFillOfResting ==
    C8_Case =>
        LET p == best(Opp(last.order.otype), Counter(pre))
            k == last.order.qty
        IN  /\ last.outcome = "matched"
            /\ Own(book) = Own(pre)
            /\ Counter(book) = [Counter(pre) EXCEPT ![p][1].qty = @ - k]
            /\ Counter(book)[p][1].qty > 0
            /\ book.LTP = p

C8_Witness ==
    /\ C8_Case /\ last.outcome = "matched"
    /\ Len(Counter(pre)[best(Opp(last.order.otype), Counter(pre))]) > 1

\* ------------------------------------------------------------------ C9
\* C9: a funded BID below asks.best (a funded ASK above bids.best), the
\* opposing side being non-empty, rests: add returns the newly assigned
\* identifier, the order is at the end of its level with its full quantity,
\* nothing is executed, and the opposing side, the ledger and LTP are
\* unchanged.
C9_Case ==
    /\ Added /\ Funded(last.order, pre.participants)
    /\ count(Counter(pre)) > 0
    /\ LET p == best(Opp(last.order.otype), Counter(pre))
       IN  IF last.order.otype = "BID" THEN last.order.price < p
                                       ELSE last.order.price > p

C9_PriceIncompatibleRests ==
    C9_Case =>
        LET o == last.order
            id == volume(pre.bids) + volume(pre.asks) + 1
        IN  /\ last.outcome = "rested"
            /\ last.ret = id
            /\ Own(book) = [Own(pre) EXCEPT ![o.price] =
                               Append(@, [oid |-> id, owner |-> o.owner,
                                          otype |-> o.otype, price |-> o.price,
                                          qty |-> o.qty])]
            /\ last.fills = <<>>
            /\ Counter(book) = Counter(pre)
            /\ book.participants = pre.participants
            /\ book.LTP = pre.LTP

C9_Witness ==
    /\ C9_Case /\ last.outcome = "rested" /\ pre.LTP # 0

\* ------------------------------------------------------------------ C10
\* C10: cancel(id) of an identifier on neither side leaves the book as it
\* was; cancel(id) of a resting order's identifier leaves no order with that
\* identifier on either side; and cancelling the same identifier again
\* changes nothing.
C10_CancelIdempotent ==
    Cancelled =>
        /\ last.oid \notin (oids(pre.bids) \cup oids(pre.asks)) => book = pre
        /\ last.oid \notin (oids(book.bids) \cup oids(book.asks))
        /\ cancel(book, last.oid) = book

C10_Witness ==
    /\ Cancelled
    /\ last.oid \in oids(pre.asks)
    /\ count(book.asks) > 0

\* ------------------------------------------------------------------ C11
\* C11: LTP is 0 until something is executed; an add that executes leaves
\* LTP at the price of the order execute was last called on (the resting
\* order of its last execution); an operation that executes nothing (an add
\* that rests or is rejected, a cancel) leaves LTP as it was.
C11_LTPTracksLastExecution ==
    /\ last.fills # <<>> => book.LTP = last.fills[Len(last.fills)].price
    /\ last.fills = <<>> => book.LTP = pre.LTP
    /\ (Added /\ last.outcome = "matched") <=> last.fills # <<>>
    /\ (pre.LTP = 0 /\ last.fills = <<>>) => book.LTP = 0

C11_Witness ==
    /\ Added /\ last.fills # <<>>
    /\ last.order.price # last.fills[Len(last.fills)].price
    /\ pre.LTP # book.LTP

\* ------------------------------------------------------------------ C15
\* C15: every resting order has price > 0 and quantity > 0; what a sweep
\* executes on the opposing side is gone from it when add returns: an
\* exhausted order is removed and a partial fill leaves a positive rest.
C15_RestingStayPositive ==
    /\ \A r \in Resting(book) :
           /\ At(book, r).price > 0 /\ At(book, r).qty > 0
           /\ At(book, r).price = r[2] /\ At(book, r).otype = r[1]
    /\ (Added /\ last.outcome = "matched") =>
           volume(Counter(book)) <= volume(Counter(pre)) - SumAmt(last.fills)

C15_Witness ==
    /\ Added /\ last.outcome = "matched"
    /\ count(Counter(book)) < count(Counter(pre))
    /\ count(Counter(book)) > 0

\* ------------------------------------------------------------------ C17
\* C17: add ends: the while loop of a sweep makes at most one pass more than
\* there are orders resting on the opposing side, also when a pass empties
\* the level.
C17_AddTerminates ==
    Added => /\ last.steps <= count(Counter(pre)) + 1
             /\ last.steps < Fuel

C17_Witness ==
    /\ Added /\ last.outcome = "matched" /\ last.steps >= 2
    /\ count(Counter(book)) > 0

\* ------------------------------------------------------------------ C18
\* C18: no execution of a sweep is against a resting order priced beyond
\* the incoming order's limit: an ASK above the limit of an incoming BID, a
\* BID below the limit of an incoming ASK.
C18_LimitPriceRespected ==
    Added =>
        \A k \in 1..Len(last.fills) :
            IF last.order.otype = "BID"
            THEN last.fills[k].price <= last.order.price
            ELSE last.fills[k].price >= last.order.price

\* an add that executed, left part of the order unfilled, and had a level
\* beyond the limit to go on to
C18_Witness ==
    /\ Added /\ last.fills # <<>> /\ last.left > 0
    /\ last.left < last.order.qty
    /\ \E p \in levels(Counter(book)) :
           IF last.order.otype = "BID" THEN p > last.order.price
                                       ELSE p < last.order.price

\* ------------------------------------------------------------------ C19
\* C19: the positions of all participants add up to what they added up to
\* at construction, and every execution of a sweep settles the same number
\* of units on the incoming order as on the resting order.
RECURSIVE SumVolume(_, _)
SumVolume(parts, names) ==
    IF names = {} THEN 0
    ELSE LET n == CHOOSE x \in names : TRUE
         IN  parts[n].volume + SumVolume(parts, names \ {n})

C19_InventoryConserved ==
    /\ SumVolume(book.participants, DOMAIN book.participants)
           = SumVolume(InitParticipants, DOMAIN InitParticipants)
    /\ \A k \in 1..Len(last.fills) : last.fills[k].inc = last.fills[k].amt

C19_Witness ==
    /\ Added /\ Len(last.fills) >= 2
    /\ last.fills[Len(last.fills)].amt
           < last.fills[Len(last.fills)].side[last.fills[Len(last.fills)].price]
                                             [last.fills[Len(last.fills)].idx].qty

\* ------------------------------------------------------------------ C20
\* C20: an add that matches leaves the side of the incoming order's own type
\* exactly as it was: same orders, prices, quantities and places.
C20_OwnSideUntouched ==
    (Added /\ last.outcome = "matched") => Own(book) = Own(pre)

C20_Witness ==
    /\ Added /\ last.outcome = "matched"
    /\ count(Own(pre)) > 1
    /\ last.left = last.order.qty

\* ------------------------------------------------------------------ C14
\* C14: each executed order settles on its owner's ledger entry at its own
\* price.  For an add that made one execution of a units between an incoming
\* order and a resting order of another owner: the buyer's balance is down
\* by the BID's price times a and the buyer's position up by a, the seller's
\* balance is up by the ASK's price times a and the seller's position down
\* by a.
C14_Case ==
    /\ Added /\ Len(last.fills) = 1
    /\ LET f == last.fills[1]
       IN  f.side[f.price][f.idx].owner # last.order.owner

C14_OwnPriceSettlement ==
    C14_Case =>
        LET f == last.fills[1]
            o == f.side[f.price][f.idx]
            bid == IF last.order.otype = "BID" THEN last.order ELSE o
            ask == IF last.order.otype = "BID" THEN o ELSE last.order
            a == f.amt
        IN  /\ book.participants[bid.owner].balance
                   = pre.participants[bid.owner].balance - bid.price * a
            /\ book.participants[bid.owner].volume
                   = pre.participants[bid.owner].volume + a
            /\ book.participants[ask.owner].balance
                   = pre.participants[ask.owner].balance + ask.price * a
            /\ book.participants[ask.owner].volume
                   = pre.participants[ask.owner].volume - a

\* ------------------------------------------------------------------ C16
\* C16: cancel(id) changes no balance, no position and not LTP, and leaves
\* every resting order with another identifier on its side, at its price,
\* with its quantity and in the same order among the orders of its level.
C16_CancelFrame ==
    Cancelled =>
        /\ book.participants = pre.participants
        /\ book.LTP = pre.LTP
        /\ \A t \in {"BID", "ASK"}, p \in Prices :
               side_of(book, t)[p]
                   = SelectSeq(side_of(pre, t)[p], LAMBDA o : o.oid # last.oid)

C16_Witness ==
    /\ Cancelled /\ pre.LTP # 0
    /\ \E t \in {"BID", "ASK"}, p \in Prices :
           /\ Len(side_of(pre, t)[p]) = 3
           /\ side_of(pre, t)[p][2].oid = last.oid
           /\ Len(side_of(book, t)[p]) = 2

\* ------------------------------------------------------------------ C12
\* C12: add_participant(p) fails with ParticipantAlreadyExists when p's name
\* is registered; when it succeeds p is in the Book's participant map, so
\* that a second add_participant(p) fails.
C12_Registration ==
    last.op = "add_participant" =>
        /\ last.who \in DOMAIN pre.participants
               => last.raised = "ParticipantAlreadyExists"
        /\ last.raised = "none" => last.who \in DOMAIN book.participants

\* ------------------------------------------------------------------ C13
\* C13: constructing an Order with price <= 0 or quantity <= 0 raises
\* ValueError and yields no order, whatever the other arguments; with
\* price > 0, quantity > 0 and an identifier >= 0 it yields the order with
\* the arguments given.
C13_OrderValidation ==
    last.op = "Order" =>
        /\ (last.args.price <= 0 \/ last.args.qty <= 0)
               => last.raised = "ValueError" /\ ~last.made
        /\ (last.args.price > 0 /\ last.args.qty > 0 /\ last.args.oid >= 0)
               => /\ last.raised = "none" /\ last.made
                  /\ last.order = last.args

C13_Witness ==
    /\ last.op = "Order" /\ last.args.price = 0 /\ last.args.qty > 0
    /\ last.args.oid >= 0 /\ last.raised = "ValueError"

====
